---- MODULE Spec2Model ----
(***************************************************************************)
(* exifserve: GET /tags starts `exiftool -listx`, decodes its XML output   *)
(* token by token and streams it to the HTTP response as one JSON          *)
(* document.  The model follows src/main.go (package handler: ExifTool,    *)
(* streamer, search) and src/handler/handler.go (GetTags).                 *)
(*                                                                         *)
(* The subprocess is the environment: it writes XML tokens into a bounded  *)
(* pipe, blocks when the pipe is full, exits by itself or is killed when   *)
(* its context is done.  The decoder is encoding/xml's strict decoder.     *)
(***************************************************************************)
EXTENDS Naturals, Sequences, FiniteSets, TLC

\* ------------------------------------------------------------------ bounds
MaxTables == 2      \* table elements the subprocess writes
MaxTags   == 2      \* tag elements the subprocess writes, over all tables
MaxOther  == 1      \* other tokens (character data, comments) it writes
PipeCap   == 1      \* tokens the stdout pipe holds before a write blocks
MaxDesc   == 3      \* desc children of the tag element emitTag is given
MaxSearchLen == 3   \* tokens ahead of the decoder when search is called
MaxDepth  == 2      \* elements open in the decoder when search is called

\* ------------------------------------------------------------------ values
NoAttr     == "<none>"          \* an element without a name attribute
\* The streamer never compares one name with another, so the names are
\* fixed by position: consecutive tables, and consecutive tags, differ.
TableNames == <<"A", "B">>
TagNames   == <<"x", "y">>
NameAt(names, i) == names[((i - 1) % Len(names)) + 1]

StartElement(n, a) == [k |-> "start", n |-> n, a |-> a]
EndElement(n)      == [k |-> "end",   n |-> n, a |-> NoAttr]
CharData           == [k |-> "other", n |-> "",  a |-> NoAttr]
\* Of an element the decoder keeps the local name n and one attribute a: the
\* name attribute of table and tag, the lang attribute of desc.  Character
\* data carries its text in n.
Text(v)            == [k |-> "other", n |-> v,   a |-> NoAttr]

\* emitTag's xmlDesc and the zero value of the part of `var tag` that
\* DecodeElement fills from the children of the element
xmlDesc(l, v)      == [Lang |-> l, Value |-> v]
NoTag              == [Description |-> <<>>]
EmptyMap           == [l \in {} |-> ""]

\* what the streamer writes to the sink (src/main.go:172, 180, 203, 243)
Lit(s)     == [kind |-> s, path |-> <<>>, group |-> ""]
Prolog     == Lit("{\"tags\": [")
Epilog     == Lit("]}")
Comma      == Lit(",")

\* error values; isEOF is what errors.Is(e, io.EOF) reports
NoErr      == [msg |-> "nil", isEOF |-> FALSE]
Err(m, e)  == [msg |-> m, isEOF |-> e]

\* search's query and result; Nil is the nil pointer of a result field
xmlQuery(s, e) == [NamedStart |-> s, NamedEnd |-> e]
Nil        == [k |-> "nil", n |-> "", a |-> NoAttr]
xmlSearchResult(s, e, x) ==
  [returned |-> TRUE, NamedStart |-> s, NamedEnd |-> e, err |-> x]
Searching  == [returned |-> FALSE, NamedStart |-> Nil, NamedEnd |-> Nil,
               err |-> NoErr]

VARIABLES
  hpc,          \* GetTags: position of the request handler
  status,       \* HTTP status committed (0: none yet)
  logged,       \* GetTags logged the StreamTags error
  reqCancelled, \* the request context is cancelled
  etCancelled,  \* et.cancel() was called
  stdout,       \* et.stdout: "nil", "open", "closed"
  proc,         \* subprocess: "none", "running", "exited"
  exit,         \* its exit status: "none", "ok", "failed", "killed"
  pblocked,     \* the subprocess is blocked in a write to the full pipe
  pstk,         \* elements the subprocess has opened and not closed
  tables,       \* name attribute of every table element it has written
  nTags, nOther,   \* tag elements and other tokens it has written
  expected,     \* per tag written: its table's name, its name, its descs
  pipe,         \* tokens written and not yet read
  dstk,         \* xml.Decoder: stack of open elements
  pc1,          \* decode/transform goroutine
  tableName, comma, se, decBase,   \* locals of stream/streamTags/emitTag
  tag,          \* emitTag: the struct DecodeElement fills
  stop,         \* how s.stream / the goroutine came to its end
  outcome1,     \* the error the decode/transform goroutine stored
  sawNoName,    \* the decoder returned a table element without a name
  sinkFailed,   \* a write to the sink failed
  sink,         \* what was written to the io.Writer
  pc2,          \* exit-wait goroutine
  waitErr,      \* its local waitErr is non-nil
  err,          \* StreamTags' named result
  wg,           \* sync.WaitGroup counter
  ret,          \* what StreamTags returned to GetTags
  query, result,   \* search: its query q, and what it returned
  seen          \* search: the tokens the decoder gave it so far

hvars  == <<hpc, status, logged>>
cvars  == <<reqCancelled, etCancelled>>
pvars  == <<proc, exit, pblocked, pstk, tables, nTags, nOther, expected>>
svars  == <<tableName, comma, se, decBase, tag, stop, sawNoName>>
fvars  == <<query, result, seen>>
vars   == <<hvars, cvars, stdout, pvars, pipe, dstk, pc1, svars, outcome1,
            sinkFailed, sink, pc2, waitErr, err, wg, ret, fvars>>

Top(s)  == s[Len(s)]
Pop(s)  == SubSeq(s, 1, Len(s) - 1)

Init ==
  /\ hpc = "start" /\ status = 0 /\ logged = FALSE
  /\ reqCancelled = FALSE /\ etCancelled = FALSE
  /\ stdout = "nil"
  /\ proc = "none" /\ exit = "none" /\ pblocked = FALSE /\ pstk = <<>>
  /\ tables = <<>> /\ nTags = 0 /\ nOther = 0 /\ expected = <<>>
  /\ pipe = <<>> /\ dstk = <<>>
  /\ pc1 = "idle" /\ tableName = "" /\ comma = FALSE /\ se = CharData
  /\ decBase = 0 /\ tag = NoTag
  /\ stop = "none" /\ outcome1 = NoErr /\ sawNoName = FALSE
  /\ sinkFailed = FALSE /\ sink = <<>>
  /\ pc2 = "idle" /\ waitErr = FALSE
  /\ err = NoErr /\ wg = 0 /\ ret = NoErr
  /\ query = xmlQuery("", "") /\ result = Searching /\ seen = <<>>


\* ------------------------------------------------------------ cancellation
\* Listx: the command's context is a child of the request context with its
\* own cancel function, so it is done when either trigger fired.
\* a command context that is not derived from the request context
ctxDoneSecondaryOnly(req, et) == et

ctxDone(req, et) == req \/ et

\* The request context is cancelled (client disconnect) while GetTags runs.
ReqCancel ==
  /\ hpc # "end" /\ ~reqCancelled
  /\ reqCancelled' = TRUE
  /\ UNCHANGED <<hvars, etCancelled, stdout, pvars, pipe, dstk, pc1, svars,
                 outcome1, sinkFailed, sink, pc2, waitErr, err, wg, ret, fvars>>

\* -------------------------------------------------------------- subprocess
\* The tokens exiftool may write next: tables (with or without a name) at
\* the top level, tags inside a table, character data between tables.
ProcTokens ==
  IF pstk = <<>>
  THEN {StartElement("table", a) :
          a \in IF Len(tables) < MaxTables
                THEN {NameAt(TableNames, Len(tables) + 1), NoAttr} ELSE {}}
       \cup (IF nOther < MaxOther THEN {CharData} ELSE {})
  ELSE IF Top(pstk).n = "table"
  THEN {StartElement("tag", a) :
          a \in IF nTags < MaxTags THEN {NameAt(TagNames, nTags + 1)} ELSE {}}
       \cup {EndElement("table")}
  ELSE {EndElement(Top(pstk).n)}

ProcWrite(t) ==
  /\ proc = "running" /\ Len(pipe) < PipeCap /\ t \in ProcTokens
  /\ pipe' = Append(pipe, t)
  /\ pblocked' = FALSE
  /\ pstk' = IF t.k = "start" THEN Append(pstk, t)
             ELSE IF t.k = "end" THEN Pop(pstk) ELSE pstk
  /\ tables' = IF t.k = "start" /\ t.n = "table" THEN Append(tables, t.a)
                ELSE tables
  /\ nTags' = IF t.k = "start" /\ t.n = "tag" THEN nTags + 1 ELSE nTags
  /\ nOther' = IF t.k = "other" THEN nOther + 1 ELSE nOther
  /\ expected' = IF t.k = "start" /\ t.n = "tag"
                 THEN Append(expected, [group |-> Top(pstk).a, name |-> t.a,
                                        descs |-> <<>>])
                 ELSE expected
  /\ UNCHANGED <<hvars, cvars, stdout, proc, exit, dstk, pc1, svars, outcome1,
                 sinkFailed, sink, pc2, waitErr, err, wg, ret, fvars>>

\* The subprocess has more to write and the pipe is full: it blocks in write.
ProcBlock ==
  /\ proc = "running" /\ Len(pipe) = PipeCap /\ ProcTokens # {} /\ ~pblocked
  /\ pblocked' = TRUE
  /\ UNCHANGED <<hvars, cvars, stdout, proc, exit, pstk, tables, nTags,
                 nOther, expected, pipe, dstk, pc1, svars, outcome1,
                 sinkFailed, sink, pc2, waitErr, err, wg, ret, fvars>>

\* The subprocess exits by itself, with a zero or a non-zero status.
ProcExit(st) ==
  /\ proc = "running" /\ ~pblocked
  /\ proc' = "exited" /\ exit' = st
  /\ UNCHANGED <<hvars, cvars, stdout, pblocked, pstk, tables, nTags, nOther,
                 expected, pipe, dstk, pc1, svars, outcome1, sinkFailed, sink,
                 pc2, waitErr, err, wg, ret, fvars>>

\* exec.CommandContext kills the process once its context is done.
ProcKill ==
  /\ proc = "running" /\ ctxDone(reqCancelled, etCancelled)
  /\ proc' = "exited" /\ exit' = "killed" /\ pblocked' = FALSE
  /\ UNCHANGED <<hvars, cvars, stdout, pstk, tables, nTags, nOther, expected,
                 pipe, dstk, pc1, svars, outcome1, sinkFailed, sink, pc2,
                 waitErr, err, wg, ret, fvars>>

\* ----------------------------------------------------------- xml.Decoder
\* decoder.Token() on the pipe.  A read of the closed read end fails; an
\* empty pipe whose writer is gone is end-of-input, which the strict decoder
\* reports as io.EOF only when no element is open; an end element must close
\* the innermost open element.  With a live writer and an empty pipe the
\* read blocks.
CanRead == stdout = "closed" \/ pipe # <<>> \/ proc = "exited"

TokenErr ==
  IF stdout = "closed" THEN Err("read: file already closed", FALSE)
  ELSE IF pipe = <<>>
  THEN IF dstk = <<>> THEN Err("EOF", TRUE)
       ELSE Err("XML syntax error: unexpected EOF", FALSE)
  ELSE IF Head(pipe).k = "end" /\ (dstk = <<>> \/ Top(dstk) # Head(pipe).n)
  THEN Err("XML syntax error: unexpected end element", FALSE)
  ELSE NoErr

\* the decoder's state after a token was returned
Consume ==
  /\ pipe' = Tail(pipe)
  /\ dstk' = IF Head(pipe).k = "start" THEN Append(dstk, Head(pipe).n)
             ELSE IF Head(pipe).k = "end" THEN Pop(dstk) ELSE dstk

\* ----------------------------------------------------------------- errors
\* fmt.Errorf with %w keeps the wrapped error visible to errors.Is, with %v
\* it does not.
Wrapw(m, e) == [msg |-> m, isEOF |-> e.isEOF]
Wrapv(m, e) == [msg |-> m, isEOF |-> FALSE]

\* a search that formats the decoder's error with %v
searchErrOpaque(e)     == Wrapv("decoder.Token", e)

searchErr(e)           == Wrapw("decoder.Token", e)
streamSearchErr(e)     == Wrapv("search", e)
streamTagsSearchErr(e) == Wrapw("s.streamTags", Wrapw("search", e))
streamTagsWriteErr     == Wrapw("s.streamTags",
                                Wrapw("s.Writer.Write", Err("write", FALSE)))
emitTagDecodeErr(e)    ==
  Wrapw("s.streamTags", Wrapw("s.emitTag", Wrapw("s.Decoder.DecodeElement", e)))
emitTagEncodeErr       ==
  Wrapw("s.streamTags", Wrapw("s.emitTag",
                              Wrapw("s.Encoder.Encode", Err("write", FALSE))))

\* ----------------------------------------------------------------- search
\* What search does with one token under query q: "open" (matched open),
\* "close" (matched close) or "skip".
search(q, v) ==
  IF v.k = "start"
  THEN IF q.NamedStart = "" THEN "skip"
       ELSE IF v.n = q.NamedStart THEN "open" ELSE "skip"
  ELSE IF v.k = "end"
  THEN IF q.NamedEnd = "" THEN "skip"
       ELSE IF v.n = q.NamedStart THEN "close" ELSE "skip"
  ELSE "skip"

attributeByLocalName(v) == [value |-> v.a, has |-> v.a # NoAttr]

\* DecodeElement's unmarshalling of one token v of the element's subtree,
\* read with `open` elements open below the element itself: a desc child
\* appends an xmlDesc with its lang attribute ("" without one), character
\* data directly inside a desc is its Value; everything else is skipped.
descLang(v) == IF v.a = NoAttr THEN "" ELSE v.a

Unmarshal(tg, v, open, parent) ==
  IF v.k = "start" /\ v.n = "desc" /\ open = 1
  THEN [tg EXCEPT !.Description = Append(@, xmlDesc(descLang(v), ""))]
  ELSE IF v.k = "other" /\ open = 2 /\ parent = "desc" /\ tg.Description # <<>>
  THEN [tg EXCEPT !.Description[Len(tg.Description)].Value = v.n]
  ELSE tg

\* a loop that keeps the first value of a language
putDescriptionIfAbsent(m, d) ==
  [l \in DOMAIN m \cup {d.Lang} |-> IF l \in DOMAIN m THEN m[l] ELSE d.Value]

\* tag.JSONDescription[d.Lang] = d.Value
putDescription(m, d) ==
  [l \in DOMAIN m \cup {d.Lang} |-> IF l = d.Lang THEN d.Value ELSE m[l]]

\* make(map[string]string), then the loop over tag.Description
RECURSIVE JSONDescription(_)
JSONDescription(ds) ==
  IF ds = <<>> THEN EmptyMap
  ELSE putDescription(JSONDescription(SubSeq(ds, 1, Len(ds) - 1)), ds[Len(ds)])

\* the record emitTag serializes for element v of table t, decoded into tg
emitTag(t, v, tg) ==
  [kind |-> "tag", path |-> <<t, ":", v.a>>, group |-> t,
   description |-> JSONDescription(tg.Description)]

\* ------------------------------------------- decode/transform goroutine
\* s.stream() returned streamErr to the goroutine of StreamTags: end-of-input
\* leads to the epilogue, anything else is stored in err and then cancelled.
errorsIsEOF(e) == e.isEOF

StreamReturns(streamErr, why) ==
  /\ stop' = why
  /\ IF errorsIsEOF(streamErr)
     THEN pc1' = "epilog" /\ UNCHANGED <<err, outcome1>>
     ELSE /\ pc1' = "cancel"
          /\ err' = Wrapw("stream", streamErr)
          /\ outcome1' = Wrapw("stream", streamErr)

EmitProlog(ok) ==
  /\ pc1 = "prolog"
  /\ IF ok
     THEN /\ sink' = Append(sink, Prolog)
          /\ pc1' = "awaitTable"
          /\ UNCHANGED <<err, outcome1, stop, sinkFailed, wg>>
     ELSE /\ sinkFailed' = TRUE
          /\ err' = Wrapw("s.emitProlog", Wrapw("s.Writer.Write", Err("write", FALSE)))
          /\ outcome1' = err'
          /\ stop' = "prolog"
          /\ pc1' = "done" /\ wg' = wg - 1
          /\ UNCHANGED sink
  /\ UNCHANGED <<hvars, cvars, stdout, pvars, pipe, dstk, tableName, comma, se,
                 decBase, tag, sawNoName, pc2, waitErr, ret, fvars>>

\* stream: one token of search(xmlQuery{NamedStart: "table"}), then the
\* name attribute of the table found.
AwaitTable ==
  /\ pc1 = "awaitTable" /\ CanRead
  /\ IF TokenErr # NoErr
     THEN /\ StreamReturns(streamSearchErr(searchErr(TokenErr)),
                           IF TokenErr.isEOF THEN "outerEOF" ELSE "outerErr")
          /\ UNCHANGED <<pipe, dstk, tableName, comma, sawNoName>>
     ELSE /\ Consume
          /\ IF search(xmlQuery("table", ""), Head(pipe)) = "open"
             THEN IF attributeByLocalName(Head(pipe)).has
                  THEN /\ tableName' = attributeByLocalName(Head(pipe)).value
                       /\ comma' = FALSE
                       /\ pc1' = "awaitTag"
                       /\ UNCHANGED <<err, outcome1, stop, sawNoName>>
                  ELSE /\ StreamReturns(Err("no table name specified by exiftool",
                                            FALSE), "noname")
                       /\ sawNoName' = TRUE
                       /\ UNCHANGED <<tableName, comma>>
             ELSE UNCHANGED <<pc1, err, outcome1, stop, tableName, comma, sawNoName>>
  /\ UNCHANGED <<hvars, cvars, stdout, pvars, se, decBase, tag, sinkFailed,
                 sink, pc2, waitErr, wg, ret, fvars>>

\* streamTags: one token of search(xmlQuery{NamedStart: "tag", NamedEnd:
\* "table"}).
AwaitTag ==
  /\ pc1 = "awaitTag" /\ CanRead
  /\ IF TokenErr # NoErr
     THEN /\ StreamReturns(streamTagsSearchErr(searchErr(TokenErr)),
                           IF TokenErr.isEOF THEN "innerEOF" ELSE "innerErr")
          /\ UNCHANGED <<pipe, dstk, se, decBase, tag, sawNoName>>
     ELSE /\ Consume
          /\ sawNoName' = (sawNoName \/ (Head(pipe).k = "start"
                             /\ Head(pipe).n = "table" /\ Head(pipe).a = NoAttr))
          /\ LET r == search(xmlQuery("tag", "table"), Head(pipe)) IN
             /\ pc1' = IF r = "close" THEN "awaitTable"
                       ELSE IF r = "open" THEN (IF comma THEN "comma" ELSE "decode")
                       ELSE pc1
             /\ se' = IF r = "open" THEN Head(pipe) ELSE se
             /\ decBase' = IF r = "open" THEN Len(dstk) ELSE decBase
             /\ tag' = IF r = "open" THEN NoTag ELSE tag
          /\ UNCHANGED <<err, outcome1, stop>>
  /\ UNCHANGED <<hvars, cvars, stdout, pvars, tableName, comma, sinkFailed,
                 sink, pc2, waitErr, wg, ret, fvars>>

\* streamTags: the separator before every record but the first.
WriteComma(ok) ==
  /\ pc1 = "comma"
  /\ IF ok
     THEN /\ sink' = Append(sink, Comma)
          /\ pc1' = "decode"
          /\ UNCHANGED <<err, outcome1, stop, sinkFailed>>
     ELSE /\ sinkFailed' = TRUE
          /\ StreamReturns(streamTagsWriteErr, "sinkwrite")
          /\ UNCHANGED sink
  /\ UNCHANGED <<hvars, cvars, stdout, pvars, pipe, dstk, tableName, comma, se,
                 decBase, tag, sawNoName, pc2, waitErr, wg, ret, fvars>>

\* emitTag: Decoder.DecodeElement reads the subtree of the tag, token by
\* token, up to the end element that closes it.
DecodeElement ==
  /\ pc1 = "decode" /\ CanRead
  /\ IF TokenErr # NoErr
     THEN /\ StreamReturns(emitTagDecodeErr(TokenErr), "decode")
          /\ UNCHANGED <<pipe, dstk, tag>>
     ELSE /\ Consume
          /\ tag' = Unmarshal(tag, Head(pipe), Len(dstk) - decBase,
                              IF dstk = <<>> THEN "" ELSE Top(dstk))
          /\ pc1' = IF Len(dstk') = decBase THEN "encode" ELSE pc1
          /\ UNCHANGED <<err, outcome1, stop>>
  /\ UNCHANGED <<hvars, cvars, stdout, pvars, tableName, comma, se, decBase,
                 sawNoName, sinkFailed, sink, pc2, waitErr, wg, ret, fvars>>

\* emitTag: Encoder.Encode writes the record; streamTags then sets comma.
Encode(ok) ==
  /\ pc1 = "encode"
  /\ IF ok
     THEN /\ sink' = Append(sink, emitTag(tableName, se, tag))
          /\ comma' = TRUE
          /\ pc1' = "awaitTag"
          /\ UNCHANGED <<err, outcome1, stop, sinkFailed>>
     ELSE /\ sinkFailed' = TRUE
          /\ StreamReturns(emitTagEncodeErr, "sinkwrite")
          /\ UNCHANGED <<sink, comma>>
  /\ UNCHANGED <<hvars, cvars, stdout, pvars, pipe, dstk, tableName, se,
                 decBase, tag, sawNoName, pc2, waitErr, wg, ret, fvars>>

EmitEpilog(ok) ==
  /\ pc1 = "epilog"
  /\ IF ok
     THEN /\ sink' = Append(sink, Epilog)
          /\ UNCHANGED <<err, outcome1, sinkFailed>>
     ELSE /\ sinkFailed' = TRUE
          /\ err' = Wrapw("s.emitEpilog", Wrapw("s.Writer.Write", Err("write", FALSE)))
          /\ outcome1' = err'
          /\ UNCHANGED sink
  /\ pc1' = "done" /\ wg' = wg - 1
  /\ UNCHANGED <<hvars, cvars, stdout, pvars, pipe, dstk, svars, pc2, waitErr,
                 ret, fvars>>

\* after err was stored: et.cancel(), return, wg.Done()
Cancel ==
  /\ pc1 = "cancel"
  /\ etCancelled' = TRUE
  /\ pc1' = "done" /\ wg' = wg - 1
  /\ UNCHANGED <<hvars, reqCancelled, stdout, pvars, pipe, dstk, svars,
                 outcome1, sinkFailed, sink, pc2, waitErr, err, ret, fvars>>

\* ------------------------------------------------------ exit-wait goroutine
\* et.cmd.Wait() returns once the process has exited.  The pipe came from
\* cmd.StdoutPipe(), so Wait closes its read end before it returns (os/exec:
\* "Wait will close the pipe after seeing the command exit ... It is thus
\* incorrect to call Wait before all reads from the pipe have completed").
Wait ==
  /\ pc2 = "wait" /\ proc = "exited"
  /\ waitErr' = (exit # "ok")
  /\ stdout' = "closed"
  /\ pc2' = "check"
  /\ UNCHANGED <<hvars, cvars, pvars, pipe, dstk, pc1, svars, outcome1,
                 sinkFailed, sink, err, wg, ret, fvars>>

\* `waitErr != nil && err == nil`: the read of err
\* the comparison of err inverted
waitStoresNever(w, e) == w /\ e # NoErr

waitStores(w, e) == w /\ e = NoErr

WaitCheck ==
  /\ pc2 = "check"
  /\ IF waitStores(waitErr, err)
     THEN pc2' = "store" /\ UNCHANGED wg
     ELSE pc2' = "done" /\ wg' = wg - 1
  /\ UNCHANGED <<hvars, cvars, stdout, pvars, pipe, dstk, pc1, svars, outcome1,
                 sinkFailed, sink, waitErr, err, ret, fvars>>

\* `err = fmt.Errorf("et.cmd.Wait: %w", waitErr)`: the write of err
WaitStore ==
  /\ pc2 = "store"
  /\ err' = Wrapw("et.cmd.Wait", Err("exit status", FALSE))
  /\ pc2' = "done" /\ wg' = wg - 1
  /\ UNCHANGED <<hvars, cvars, stdout, pvars, pipe, dstk, pc1, svars, outcome1,
                 sinkFailed, sink, waitErr, ret, fvars>>

\* ------------------------------------------------------------- StreamTags
\* wg.Add(1); go func() {...}() for the decode/transform activity
GoStream ==
  /\ hpc = "call"
  /\ wg' = wg + 1 /\ pc1' = "prolog" /\ hpc' = "go"
  /\ UNCHANGED <<status, logged, cvars, stdout, pvars, pipe, dstk, svars,
                 outcome1, sinkFailed, sink, pc2, waitErr, err, ret, fvars>>

\* wg.Add(1); go func() {...}() for the exit-wait activity
GoWait ==
  /\ hpc = "go"
  /\ wg' = wg + 1 /\ pc2' = "wait" /\ hpc' = "join"
  /\ UNCHANGED <<status, logged, cvars, stdout, pvars, pipe, dstk, pc1, svars,
                 outcome1, sinkFailed, sink, waitErr, err, ret, fvars>>

\* wg.Wait() returns when the counter is zero; StreamTags returns err
\* a WaitGroup that was told of one goroutine only
wgWaitReturnsEarly(n) == n <= 1

wgWaitReturns(n) == n = 0

Join ==
  /\ hpc = "join" /\ wgWaitReturns(wg)
  /\ ret' = err /\ hpc' = "log"
  /\ UNCHANGED <<status, logged, cvars, stdout, pvars, pipe, dstk, pc1, svars,
                 outcome1, sinkFailed, sink, pc2, waitErr, err, wg,
                 fvars>>

\* ---------------------------------------------------------------- GetTags
\* et.Start(): StdoutPipe fails ("pipe"), or cmd.Start fails after the pipe
\* was bound ("start": exec closes the pipe it made), or the process runs.
\* cmd.Start refuses to start under a context that is already done.
\* a handler that forgets to return after answering 500
afterStartFallsThrough(res) == "header"

\* GetTags returns after http.Error when et.Start failed
afterStart(res) == IF res = "ok" THEN "header" ELSE "close"

Start(res) ==
  /\ hpc = "start"
  /\ res = "ok" => ~ctxDone(reqCancelled, etCancelled)
  /\ stdout' = IF res = "pipe" THEN "nil" ELSE IF res = "start" THEN "closed"
               ELSE "open"
  /\ proc' = IF res = "ok" THEN "running" ELSE proc
  /\ status' = IF res = "ok" THEN status ELSE 500
  /\ hpc' = afterStart(res)
  /\ UNCHANGED <<logged, cvars, exit, pblocked, pstk, tables, nTags, nOther,
                 expected, pipe, dstk, pc1, svars, outcome1, sinkFailed, sink,
                 pc2, waitErr, err, wg, ret, fvars>>

WriteHeader ==
  /\ hpc = "header"
  /\ status' = 200 /\ hpc' = "call"
  /\ UNCHANGED <<logged, cvars, stdout, pvars, pipe, dstk, pc1, svars, outcome1,
                 sinkFailed, sink, pc2, waitErr, err, wg, ret, fvars>>

\* the error of StreamTags is logged unless the request's own context,
\* r.Context(), reports context.Canceled
\* a handler that asks the command's context instead of the request's
logsErrorOfCommandCtx(e, req, et) == e # NoErr /\ ~ctxDone(req, et)

logsError(e, req, et) == e # NoErr /\ ~req

Log ==
  /\ hpc = "log"
  /\ logged' = logsError(ret, reqCancelled, etCancelled)
  /\ hpc' = "close"
  /\ UNCHANGED <<status, cvars, stdout, pvars, pipe, dstk, pc1, svars, outcome1,
                 sinkFailed, sink, pc2, waitErr, err, wg, ret, fvars>>

\* a Close that does not look whether the stream was ever opened
closeUnchecked(s) == "closed"

\* Close closes the stdout handle if there is one
closeStdout(s) == IF s # "nil" THEN "closed" ELSE s

\* defer et.Close()
Close ==
  /\ hpc = "close"
  /\ stdout' = closeStdout(stdout)
  /\ hpc' = "end"
  /\ UNCHANGED <<status, logged, cvars, pvars, pipe, dstk, pc1, svars, outcome1,
                 sinkFailed, sink, pc2, waitErr, err, wg, ret, fvars>>

\* ------------------------------------------------------------------- Next
Next ==
  \/ ReqCancel
  \/ \E t \in ProcTokens : ProcWrite(t)
  \/ ProcBlock
  \/ \E st \in {"ok", "failed"} : ProcExit(st)
  \/ ProcKill
  \/ \E ok \in BOOLEAN : EmitProlog(ok)
  \/ AwaitTable
  \/ AwaitTag
  \/ \E ok \in BOOLEAN : WriteComma(ok)
  \/ DecodeElement
  \/ \E ok \in BOOLEAN : Encode(ok)
  \/ \E ok \in BOOLEAN : EmitEpilog(ok)
  \/ Cancel
  \/ Wait
  \/ WaitCheck
  \/ WaitStore
  \/ GoStream
  \/ GoWait
  \/ Join
  \/ \E res \in {"ok", "pipe", "start"} : Start(res)
  \/ WriteHeader
  \/ Log
  \/ Close

Spec == Init /\ [][Next]_vars

\* =================================================================== claims
StreamTagsReturned == hpc \in {"log", "close", "end"} /\ status = 200

\* the records of the sink, in order
Records == SelectSeq(sink, LAMBDA x : x.kind = "tag")

\* the sink as a sequence of marks: a literal as itself, a record as the
\* name of its tag (the part of path after the colon)
SinkShape == [i \in 1..Len(sink) |->
                IF sink[i].kind = "tag" THEN sink[i].path[3] ELSE sink[i].kind]

\* the tags of the document in order, one comma between consecutive ones
RECURSIVE Joined(_)
Joined(s) == IF s = <<>> THEN <<>>
             ELSE IF Len(s) = 1 THEN <<s[1].name>>
             ELSE <<s[1].name, Comma.kind>> \o Joined(Tail(s))

\* the subprocess wrote N >= 1 complete tables, each with a name
WellFormedDoc ==
  /\ Len(tables) >= 1 /\ pstk = <<>>
  /\ \A i \in 1..Len(tables) : tables[i] # NoAttr

\* C1: for a well-formed document of N >= 1 named tables written by a
\* subprocess that exits with success (and a sink that takes every write),
\* StreamTags returns success and the sink holds the prologue, every record
\* in document order with exactly one comma between consecutive records, and
\* the epilogue.
C1_Claim ==
  (StreamTagsReturned /\ WellFormedDoc /\ exit = "ok" /\ ~sinkFailed)
    => /\ ret = NoErr
       /\ SinkShape = <<Prolog.kind>> \o Joined(expected) \o <<Epilog.kind>>

\* C2: every record of the sink has the group of the table that encloses its
\* tag in the input, and path = group ":" name (stated for documents whose
\* tables all have a name).
C2_Claim ==
  (\A i \in 1..Len(tables) : tables[i] # NoAttr)
    => \A i \in 1..Len(Records) :
         /\ i <= Len(expected)
         /\ Records[i].group = expected[i].group
         /\ Records[i].path = <<expected[i].group, ":", expected[i].name>>

\* C3: when the output holds no table element (the outer search ends with
\* end-of-input after zero tables) and the sink takes every write, the sink
\* holds exactly prologue and epilogue, et.cancel was not called and the
\* decode/transform activity stored no error.
C3_Claim ==
  (pc1 = "done" /\ stop = "outerEOF" /\ tables = <<>> /\ ~sinkFailed)
    => (sink = <<Prolog, Epilog>> /\ ~etCancelled /\ outcome1 = NoErr)

EpilogWritten == \E i \in 1..Len(sink) : sink[i] = Epilog

\* C4: the epilogue is written only when the streamer stopped at
\* end-of-input of the outer table search; when it stopped any other way no
\* epilogue is written and StreamTags returns an error.
C4_Claim ==
  /\ EpilogWritten => stop = "outerEOF"
  /\ (pc1 = "done" /\ stop # "outerEOF")
       => (~EpilogWritten /\ (StreamTagsReturned => ret # NoErr))

\* C5: once the decoder has returned a table element without a name, at any
\* position, the streamer has stopped there with the missing-name error, no
\* epilogue is written, no record of that table is written, and StreamTags
\* returns an error.
C5_Claim ==
  sawNoName
    => /\ pc1 \in {"cancel", "done"} /\ stop = "noname"
       /\ ~EpilogWritten
       /\ \A i \in 1..Len(Records) :
            i <= Len(expected) /\ expected[i].group # NoAttr
       /\ StreamTagsReturned => ret # NoErr

\* C6: if the decode/transform activity stored an error, StreamTags returns
\* that error, whenever the exit-wait activity recorded its own.
C6_Claim ==
  (StreamTagsReturned /\ outcome1 # NoErr) => ret = outcome1

\* C7: when the decode/transform activity ended with success and the
\* subprocess exit failed, StreamTags returns the exit-wait error; it returns
\* success exactly when both succeeded.
C7_Join ==
  StreamTagsReturned
    => /\ (outcome1 = NoErr /\ exit # "ok") => ret.msg = "et.cmd.Wait"
       /\ ret = NoErr <=> (outcome1 = NoErr /\ exit = "ok")

C7_Witness ==
  /\ StreamTagsReturned /\ EpilogWritten /\ outcome1 = NoErr
  /\ exit = "failed" /\ ret.msg = "et.cmd.Wait"

\* C8: StreamTags has returned only when both activities have completed.
C8_Joined ==
  StreamTagsReturned => (pc1 = "done" /\ pc2 = "done" /\ wg = 0)

C8_Witness ==
  /\ hpc = "log" /\ pc1 = "done" /\ pc2 = "done"
  /\ Len(Records) >= 1 /\ waitErr

\* C9: when the decode/transform activity has ended, et.cancel was called
\* and an error stored unless the activity reached end-of-input of the outer
\* table search, and then et.cancel was not called.
C9_Claim ==
  pc1 = "done"
    => IF stop = "outerEOF" THEN ~etCancelled
       ELSE etCancelled /\ outcome1 # NoErr

\* ---------------------------------------------------------------- fairness
\* The Go scheduler runs every runnable goroutine, the operating system runs
\* the subprocess while it is not blocked, and the goroutine that
\* exec.CommandContext starts kills the process once its context is done.
\* Nothing obliges the client to cancel the request.
HandlerStep ==
  \/ \E res \in {"ok", "pipe", "start"} : Start(res)
  \/ WriteHeader \/ GoStream \/ GoWait \/ Join \/ Log \/ Close

StreamStep ==
  \/ \E ok \in BOOLEAN : EmitProlog(ok) \/ WriteComma(ok) \/ Encode(ok) \/ EmitEpilog(ok)
  \/ AwaitTable \/ AwaitTag \/ DecodeElement \/ Cancel

WaitStep == Wait \/ WaitCheck \/ WaitStore

ProcStep ==
  \/ \E t \in ProcTokens : ProcWrite(t)
  \/ \E st \in {"ok", "failed"} : ProcExit(st)

LiveSpec ==
  /\ Spec
  /\ WF_vars(HandlerStep) /\ WF_vars(StreamStep) /\ WF_vars(WaitStep)
  /\ WF_vars(ProcStep) /\ WF_vars(ProcKill)

StreamTagsRunning == hpc \in {"go", "join"}

\* C10: once the request context is cancelled while StreamTags runs, the
\* subprocess is terminated, both activities complete and StreamTags
\* returns; and a step that triggers the secondary cancellation leaves the
\* request context as it was.
C10_Cancellation ==
  /\ (reqCancelled /\ StreamTagsRunning)
       ~> (proc = "exited" /\ pc1 = "done" /\ pc2 = "done" /\ StreamTagsReturned)
  /\ [][(etCancelled' /\ ~etCancelled) => (reqCancelled' = reqCancelled)]_vars

C10_Witness ==
  /\ reqCancelled /\ ~etCancelled /\ exit = "killed"
  /\ pc1 = "done" /\ pc2 = "done" /\ hpc = "log"

\* C11: the error of StreamTags is logged exactly when the request context
\* is not cancelled at the time GetTags looks: a logged error is an error of
\* StreamTags; an error returned with the request context still live (also
\* after et.cancel) is logged; once the request context is cancelled before
\* GetTags looks, nothing is logged.
C11_Logging ==
  /\ [](logged => (ret # NoErr /\ status = 200))
  /\ []((hpc \in {"close", "end"} /\ status = 200 /\ ret # NoErr /\ ~reqCancelled)
          => logged)
  /\ [][(reqCancelled /\ hpc \notin {"close", "end"}) => ~logged']_vars

C11_Witness ==
  /\ hpc = "close" /\ logged /\ etCancelled /\ ~reqCancelled
  /\ ret.msg = "stream"

\* C12: the response status is committed once and before any body byte:
\* after a failed Start the status is 500, StreamTags is never invoked and
\* nothing of the JSON envelope is written; after a successful Start the
\* status 200 is written before the prologue and nothing changes it later.
C12_Status ==
  /\ [](sink # <<>> => status = 200)
  /\ [](pc1 # "idle" \/ pc2 # "idle" => status = 200)
  /\ [](status = 500 => (hpc \in {"close", "end"} /\ sink = <<>> /\ proc = "none"))
  /\ [](hpc = "end" => status \in {200, 500})
  /\ [][status # 0 => status' = status]_vars

C12_Witness ==
  /\ hpc = "end" /\ status = 200
  /\ ret # NoErr /\ sink # <<>> /\ sinkFailed

\* C13: when GetTags returns, Close has run: the stdout handle is closed if
\* it was ever opened, a subprocess that was started has exited and its Wait
\* has returned; Close leaves a never-opened handle alone, and closing once
\* more changes nothing.
C13_Close ==
  /\ [](hpc = "end" => (/\ stdout \in {"nil", "closed"}
                        /\ proc # "none" => (proc = "exited" /\ pc2 = "done")
                        /\ closeStdout(stdout) = stdout))
  /\ [][(hpc = "close" /\ stdout = "nil") => stdout' = "nil"]_vars
  /\ [][(hpc = "close" /\ hpc' = "end") => stdout' \in {"nil", "closed"}]_vars
  /\ [][stdout = "open" => hpc' # "end"]_vars

C13_Witness ==
  /\ hpc = "end" /\ status = 200
  /\ stdout = "closed" /\ proc = "exited" /\ exit = "killed" /\ pc2 = "done"

\* ------------------------------------------------------- emitTag on its own
\* emitTag is entered with the start element of a tag; the rest of the
\* element is still to be read.  The inputs are the desc children of that
\* element: each with or without a lang attribute, with or without text.
Langs == {NoAttr, "en", "fr"}
Texts == {"", "one", "two"}
DescChildren == [lang : Langs, text : Texts]
BoundedSeq(S, n) == UNION {[1..k -> S] : k \in 0..n}

RECURSIVE DescTokens(_)
DescTokens(ds) ==
  IF ds = <<>> THEN <<>>
  ELSE <<StartElement("desc", ds[1].lang)>>
       \o (IF ds[1].text = "" THEN <<>> ELSE <<Text(ds[1].text)>>)
       \o <<EndElement("desc")>> \o DescTokens(Tail(ds))

EmitTagInit ==
  /\ hpc = "join" /\ status = 200 /\ logged = FALSE
  /\ reqCancelled = FALSE /\ etCancelled = FALSE
  /\ stdout = "open"
  /\ proc = "exited" /\ exit = "ok" /\ pblocked = FALSE /\ pstk = <<>>
  /\ tables = <<"A">> /\ nTags = 1 /\ nOther = 0
  /\ \E ds \in BoundedSeq(DescChildren, MaxDesc) :
       /\ expected = <<[group |-> "A", name |-> "x", descs |-> ds]>>
       /\ pipe = DescTokens(ds) \o <<EndElement("tag"), EndElement("table")>>
  /\ dstk = <<"table", "tag">>
  /\ pc1 = "decode" /\ tableName = "A" /\ comma = FALSE
  /\ se = StartElement("tag", "x") /\ decBase = 1 /\ tag = NoTag
  /\ stop = "none" /\ outcome1 = NoErr /\ sawNoName = FALSE
  /\ sinkFailed = FALSE /\ sink = <<Prolog>>
  /\ pc2 = "wait" /\ waitErr = FALSE
  /\ err = NoErr /\ wg = 2 /\ ret = NoErr
  /\ query = xmlQuery("", "") /\ result = Searching /\ seen = <<>>

EmitTagNext ==
  \/ DecodeElement
  \/ \E ok \in BOOLEAN : Encode(ok)

EmitTagSpec == EmitTagInit /\ [][EmitTagNext]_vars

\* the language of a desc child as written; a child without the attribute
\* counts as the language ""
LangOf(d) == IF d.lang = NoAttr THEN "" ELSE d.lang

\* C14: every emitted record has a description mapping (the field is never
\* absent) whose keys are exactly the distinct languages of the desc
\* children of its tag, each language with the text of the last child of
\* that language; a tag without desc children has the empty mapping.
C14_Description ==
  \A i \in 1..Len(Records) :
    LET ds == expected[i].descs IN
    /\ "description" \in DOMAIN Records[i]
    /\ DOMAIN Records[i].description = {LangOf(ds[j]) : j \in 1..Len(ds)}
    /\ ds = <<>> => Records[i].description = EmptyMap
    /\ \A j \in 1..Len(ds) :
         (\A k \in (j + 1)..Len(ds) : LangOf(ds[k]) # LangOf(ds[j]))
            => Records[i].description[LangOf(ds[j])] = ds[j].text

C14_Witness ==
  /\ Len(Records) = 1
  /\ LET ds == expected[1].descs IN
     /\ Len(ds) = 3
     /\ ds[1].lang = ds[3].lang /\ ds[1].text # ds[3].text
     /\ ds[2].lang # ds[1].lang
     /\ Cardinality(DOMAIN Records[1].description) = 2

\* the table elements the decoder has returned so far
TablesRead ==
  Len(tables) - Cardinality({i \in 1..Len(pipe) :
                               pipe[i].k = "start" /\ pipe[i].n = "table"})

\* C15: the streamer awaits a tag only inside the table whose name it holds:
\* once the close element of that table is read it is back in the outer
\* table search, so the open element of the next table is never read by the
\* tag search of the previous one.
C15_Claim ==
  pc1 = "awaitTag" => (dstk = <<"table">> /\ tableName = tables[TablesRead])

\* -------------------------------------------------------- search on its own
\* search is given a query and a decoder: here any query over the element
\* names, and a decoder with up to MaxDepth elements open and up to
\* MaxSearchLen tokens of input left, after which the input ends.
SearchNames  == {"table", "tag"}
SearchTokens == {StartElement(n, NoAttr) : n \in SearchNames}
                \cup {EndElement(n) : n \in SearchNames} \cup {CharData}

SearchInit ==
  /\ hpc = "join" /\ status = 200 /\ logged = FALSE
  /\ reqCancelled = FALSE /\ etCancelled = FALSE
  /\ stdout = "open"
  /\ proc = "exited" /\ exit = "ok" /\ pblocked = FALSE /\ pstk = <<>>
  /\ tables = <<>> /\ nTags = 0 /\ nOther = 0 /\ expected = <<>>
  /\ pipe \in BoundedSeq(SearchTokens, MaxSearchLen)
  /\ dstk \in BoundedSeq(SearchNames, MaxDepth)
  /\ pc1 = "awaitTable" /\ tableName = "" /\ comma = FALSE /\ se = CharData
  /\ decBase = 0 /\ tag = NoTag
  /\ stop = "none" /\ outcome1 = NoErr /\ sawNoName = FALSE
  /\ sinkFailed = FALSE /\ sink = <<Prolog>>
  /\ pc2 = "wait" /\ waitErr = FALSE
  /\ err = NoErr /\ wg = 2 /\ ret = NoErr
  /\ query \in {xmlQuery(s, e) : s \in SearchNames \cup {""},
                                 e \in SearchNames \cup {""}}
  /\ result = Searching /\ seen = <<>>

\* one turn of search's loop: decoder.Token(), then the switch on the token
SearchToken ==
  /\ ~result.returned /\ CanRead
  /\ IF TokenErr # NoErr
     THEN /\ result' = xmlSearchResult(Nil, Nil, searchErr(TokenErr))
          /\ UNCHANGED <<pipe, dstk, seen>>
     ELSE /\ Consume
          /\ seen' = Append(seen, Head(pipe))
          /\ LET r == search(query, Head(pipe)) IN
             result' = IF r = "open" THEN xmlSearchResult(Head(pipe), Nil, NoErr)
                       ELSE IF r = "close"
                       THEN xmlSearchResult(Nil, Head(pipe), NoErr)
                       ELSE result
  /\ UNCHANGED <<hvars, cvars, stdout, pvars, pc1, svars, outcome1, sinkFailed,
                 sink, pc2, waitErr, err, wg, ret, query>>

SearchNext == SearchToken

SearchSpec == SearchInit /\ [][SearchNext]_vars

\* what the query asks for: an open element named as the open target, and,
\* when a close target is set, a close element that passes search's close
\* check, which compares with the open target
OpenHit(t)  == t.k = "start" /\ query.NamedStart # "" /\ t.n = query.NamedStart
CloseHit(t) == t.k = "end" /\ query.NamedEnd # "" /\ t.n = query.NamedStart
Hits == {i \in 1..Len(seen) : OpenHit(seen[i]) \/ CloseHit(seen[i])}

C17_Claim ==
  (StreamTagsRunning /\ ~reqCancelled)
    => ENABLED (HandlerStep \/ StreamStep \/ WaitStep \/ ProcStep \/ ProcKill)

\* the decode/transform activity has reads of the pipe ahead of it
StreamerMayRead ==
  pc1 \in {"prolog", "awaitTable", "awaitTag", "comma", "decode", "encode"}

\* C18: the read end of the subprocess's stdout stays open as long as the
\* decode/transform activity can still read from it: neither the exit-wait
\* activity's cmd.Wait nor Close closes it before.
C18_Claim == StreamerMayRead => stdout = "open"

\* the next step of the decode/transform activity may assign err; the
\* exit-wait activity is at its read of err ("check") or its write ("store")
StreamWritesErr == StreamStep /\ err' # err
WaitAccessesErr == pc2 \in {"check", "store"}

\* C19: the two activities never have accesses to the same variable pending
\* at once with one of them a write: in no state is the exit-wait activity
\* at its read or write of err while the decode/transform activity can
\* assign err as its next step.
C19_Claim == ~(WaitAccessesErr /\ ENABLED StreamWritesErr)

====
